---- MODULE Spec2Model ----
(***************************************************************************)
(* Verification model of the coordinated-multipoint helpers:               *)
(*   helpers/network.py  (lattice embedding, network configuration)        *)
(*   helpers/filters.py  (linear filters, signal comparison)               *)
(*   helpers/general.py  (loop_comparisons)                                *)
(*   tests/test_jn.py    (notebook smoke test)                             *)
(*                                                                         *)
(* Conventions.                                                            *)
(*  - A lattice node (row, col) is the tuple <<row, col>>.                 *)
(*  - A network node carries coordinates in HALF units: the transmitter   *)
(*    (row, col) is <<2*row, 2*col>> and the receiver (row+x, col+y),      *)
(*    x, y in {-0.5, 0.5}, is <<2*row + 2x, 2*col + 2y>>.  The receiver    *)
(*    coordinate -0.5 is therefore -1 and 3*(n-1)-0.5 is 6*(n-1)-1.        *)
(*  - A qubit is a Pegasus coordinate <<u, w, k, z>>.                      *)
(*  - ratio is the rational <<p, q>> = p/q with p, q > 0.                  *)
(*  - Python's random / numpy.random generator is a state rng; a draw     *)
(*    below n yields rng % n and advances the state by one.  The seed is  *)
(*    an input of the call.                                                *)
(***************************************************************************)
EXTENDS Integers, Sequences, FiniteSets, TLC

VARIABLES
    pc,         \* position of the driver: which call has completed
    args,       \* arguments of the call in progress / last call
    lattice,    \* result of _create_lattice (emb, source), or NoLattice
    net,        \* result of configure_network: status, network, emb
    stdout,     \* lines printed so far
    filt,       \* state of the filter pipeline (create/apply/compare/simulate)
    loop,       \* state of loop_comparisons
    jn          \* state of the notebook test

vars == <<pc, args, lattice, net, stdout, filt, loop, jn>>

\* qpu=None: no sampler given
NoQpu == [present |-> FALSE, missing_qubits |-> {}, missing_couplers |-> {}]

(***************************************************************************)
(* Bounds of the model.                                                    *)
(***************************************************************************)
MaxNetworkSize == 4     \* largest accepted network_size that is built
MaxDefects == 2         \* missing qubits + missing couplers of a QPU
MaxSeed == 2            \* seeds of the random generator: 0 .. MaxSeed-1
MaxAlive == 2           \* working chains of a sparse QPU
MaxTx == 2              \* transmitters of the channels given to the filters
MaxRuns == 4            \* runs asked of loop_comparisons
MaxDeviations == 2      \* cells of the executed notebook that differ from the expected ones
MaxCoord == 8           \* largest row and column given to _node_to_chain
MaxChains == 2          \* chains kept side by side

(***************************************************************************)
(* Generic helpers.                                                        *)
(***************************************************************************)
Min2(a, b) == IF a <= b THEN a ELSE b

\* Python int(): truncation toward zero of the rational a / p, p > 0.
TruncDiv(a, p) == IF a >= 0 THEN a \div p ELSE -((-a) \div p)

SeqToSet(s) == {s[i] : i \in 1..Len(s)}

\* s without the element at index i
RemoveAt(s, i) == SubSeq(s, 1, i - 1) \o SubSeq(s, i + 1, Len(s))

\* s without every occurrence of x
Without(s, x) == SelectSeq(s, LAMBDA y : y # x)

\* Python tuple comparison a < b on pairs
LexLess(a, b) == a[1] < b[1] \/ (a[1] = b[1] /\ a[2] < b[2])

\* Python evaluates an argument before the call: Strict(x) is TRUE once x
\* has been evaluated, and guards the recursive calls below.
Strict(x) == x = x

\* random draw below n from generator state rng
RandBelow(rng, n) == rng % n

(***************************************************************************)
(* helpers/network.py : _node_to_chain                                     *)
(***************************************************************************)
\* the value of a call that falls off the end of the function
None == <<>>

\* mutant of _node_to_chain: the horizontal qubit of (2, 2) is that of (1, 2)
_node_to_chain_shared(row, col) ==
    LET row_par == row % 3
        col_par == col % 3
        x == col \div 3
        y == row \div 3
    IN  IF row_par = 0 THEN
            IF col_par = 0 THEN <<<<0, x, 2, y>>, <<1, y, 7, x>>>>
            ELSE IF col_par = 1 THEN <<<<0, x + 1, 0, y>>, <<1, y, 2, x>>>>
            ELSE <<<<0, x + 1, 3, y>>, <<1, y, 8, x>>>>
        ELSE IF row_par = 1 THEN
            IF col_par = 0 THEN <<<<0, x, 8, y>>, <<1, y, 6, x>>>>
            ELSE IF col_par = 1 THEN <<<<0, x, 11, y>>, <<1, y + 1, 0, x>>>>
            ELSE <<<<0, x, 10, y>>, <<1, y, 11, x>>>>
        ELSE
            IF col_par = 0 THEN <<<<0, x, 7, y>>, <<1, y + 1, 4, x>>>>
            ELSE IF col_par = 1 THEN <<<<0, x, 6, y>>, <<1, y + 1, 3, x>>>>
            ELSE IF col_par = 2 THEN <<<<0, x + 1, 4, y>>, <<1, y, 11, x>>>>
            ELSE None

_node_to_chain(row, col) ==
    LET row_par == row % 3
        col_par == col % 3
        x == col \div 3
        y == row \div 3
    IN  IF row_par = 0 THEN
            IF col_par = 0 THEN <<<<0, x, 2, y>>, <<1, y, 7, x>>>>
            ELSE IF col_par = 1 THEN <<<<0, x + 1, 0, y>>, <<1, y, 2, x>>>>
            ELSE <<<<0, x + 1, 3, y>>, <<1, y, 8, x>>>>
        ELSE IF row_par = 1 THEN
            IF col_par = 0 THEN <<<<0, x, 8, y>>, <<1, y, 6, x>>>>
            ELSE IF col_par = 1 THEN <<<<0, x, 11, y>>, <<1, y + 1, 0, x>>>>
            ELSE <<<<0, x, 10, y>>, <<1, y, 11, x>>>>
        ELSE
            IF col_par = 0 THEN <<<<0, x, 7, y>>, <<1, y + 1, 4, x>>>>
            ELSE IF col_par = 1 THEN <<<<0, x, 6, y>>, <<1, y + 1, 3, x>>>>
            ELSE IF col_par = 2 THEN <<<<0, x + 1, 4, y>>, <<1, y, 10, x>>>>
            ELSE None

(***************************************************************************)
(* The Pegasus graph dnx.pegasus_graph(m=16) in Pegasus coordinates.       *)
(* Qubit <<0, w, k, z>> is vertical at x = 12w + k and spans               *)
(* y in 12z + s0[k] .. 12z + s0[k] + 11; qubit <<1, w, k, z>> is           *)
(* horizontal at y = 12w + k and spans x likewise with s1.  Couplers:      *)
(* internal (a vertical and a horizontal qubit cross), external (same      *)
(* line, consecutive z), odd (k = 2j and 2j+1 of the same w, z).           *)
(***************************************************************************)
PegasusM == 16
offsets0 == <<2, 2, 2, 2, 10, 10, 10, 10, 6, 6, 6, 6>>
offsets1 == <<6, 6, 6, 6, 2, 2, 2, 2, 10, 10, 10, 10>>

InternalCoupler(v, h) ==
    LET a == 12 * v[2] + v[3]
        b == 12 * h[2] + h[3]
        s0 == 12 * v[4] + offsets0[v[3] + 1]
        s1 == 12 * h[4] + offsets1[h[3] + 1]
    IN  /\ s0 <= b /\ b <= s0 + 11
        /\ s1 <= a /\ a <= s1 + 11

PegasusCoupled(p, q) ==
    IF p[1] = q[1] THEN
        \/ (p[2] = q[2] /\ p[3] = q[3] /\ (p[4] = q[4] + 1 \/ q[4] = p[4] + 1))
        \/ (p[2] = q[2] /\ p[4] = q[4] /\ p[3] # q[3]
              /\ p[3] \div 2 = q[3] \div 2)
    ELSE IF p[1] = 0 THEN InternalCoupler(p, q) ELSE InternalCoupler(q, p)

\* dnx.pegasus_coordinates(16).pegasus_to_linear
pegasus_to_linear(q) ==
    ((PegasusM * q[1] + q[2]) * 12 + q[3]) * (PegasusM - 1) + q[4]

(***************************************************************************)
(* target.has_edge(p, q) of _create_lattice.  qpu is NoQpu (the full       *)
(* Pegasus graph over the lattice's region) or a record                    *)
(* [missing_qubits, missing_couplers]: the working graph of a QPU is the   *)
(* Pegasus graph without them (qpu.nodelist, qpu.edgelist).                *)
(***************************************************************************)
TargetHasEdge(qpu, p, q) ==
    /\ PegasusCoupled(p, q)
    /\ \/ ~qpu.present
       \/ /\ p \notin qpu.missing_qubits
          /\ q \notin qpu.missing_qubits
          /\ {p, q} \notin qpu.missing_couplers

(***************************************************************************)
(* helpers/network.py : _create_lattice                                    *)
(* A lattice state is [nodes: sequence of source nodes in insertion order, *)
(* edges: set of {v, w}, emb: function on the embedded nodes,              *)
(* node_defects, edge_defects].                                            *)
(***************************************************************************)
BackDeltas == <<<<0, -1>>, <<-1, 0>>, <<-1, -1>>, <<-1, 1>>>>

EmptyLattice ==
    [nodes |-> <<>>, edges |-> {}, emb |-> <<>>,
     node_defects |-> 0, edge_defects |-> 0]

\* mutant of DropBack: the node is removed but its chain stays in emb
DropBackKeepEmb(L, v_back) ==
    [L EXCEPT !.nodes = Without(L.nodes, v_back),
              !.edges = {e \in L.edges : v_back \notin e},
              !.edge_defects = L.edge_defects + 1]

\* source.remove_node(v_back); del emb[v_back]    (the else branch, l.137-140)
DropBack(L, v_back) ==
    [L EXCEPT !.nodes = Without(L.nodes, v_back),
              !.edges = {e \in L.edges : v_back \notin e},
              !.emb = [w \in (DOMAIN L.emb) \ {v_back} |-> L.emb[w]],
              !.edge_defects = L.edge_defects + 1]

\* any(target.has_edge(v1, v2) for v1 in emb[v] for v2 in emb[v_back])
ChainsCoupled(qpu, c, d) ==
    \E i \in 1..2 : \E j \in 1..2 : TargetHasEdge(qpu, c[i], d[j])

\* one iteration of the "Add backwards" loop (l.131-142) for delta number d
AddBackStep(qpu, L, v, d) ==
    LET v_back == <<v[1] + BackDeltas[d][1], v[2] + BackDeltas[d][2]>>
    IN  IF v_back \in SeqToSet(L.nodes) THEN
            IF ChainsCoupled(qpu, L.emb[v], L.emb[v_back])
            THEN [L EXCEPT !.edges = L.edges \cup {{v, v_back}}]
            ELSE DropBack(L, v_back)
        ELSE L

RECURSIVE AddBack(_, _, _, _)
AddBack(qpu, L, v, d) ==
    IF d > Len(BackDeltas) THEN L
    ELSE LET stepped == AddBackStep(qpu, L, v, d)
         IN  IF Strict(stepped) THEN AddBack(qpu, stepped, v, d + 1) ELSE L

\* the body of the row/col loop (l.120-144) for node v
LatticeVisit(qpu, L, v) ==
    LET edge == _node_to_chain(v[1], v[2])
    IN  IF TargetHasEdge(qpu, edge[1], edge[2]) THEN
            AddBack(qpu,
                    [L EXCEPT !.nodes = Append(L.nodes, v),
                              !.emb = [w \in (DOMAIN L.emb) \cup {v} |->
                                         IF w = v THEN edge ELSE L.emb[w]]],
                    v, 1)
        ELSE [L EXCEPT !.node_defects = L.node_defects + 1]

\* for col in range(scale) of one row, from column col on
RECURSIVE LatticeRow(_, _, _, _, _)
LatticeRow(qpu, scale, L, row, col) ==
    IF col >= scale THEN L
    ELSE LET visited == LatticeVisit(qpu, L, <<row, col>>)
         IN  IF Strict(visited) THEN LatticeRow(qpu, scale, visited, row, col + 1)
             ELSE L

\* for row in range(scale), from row on
RECURSIVE LatticeLoop(_, _, _, _)
LatticeLoop(qpu, scale, L, row) ==
    IF row >= scale THEN L
    ELSE LET done == LatticeRow(qpu, scale, L, row, 0)
         IN  IF Strict(done) THEN LatticeLoop(qpu, scale, done, row + 1) ELSE L

Scale(network_size) == 3 * (network_size - 1)

_create_lattice(network_size, qpu) ==
    LatticeLoop(qpu, Scale(network_size), EmptyLattice, 0)

(***************************************************************************)
(* helpers/network.py : configure_network                                  *)
(* A network is [order: nodes in insertion order, num_transmitters,        *)
(* num_receivers: functions on the nodes, edges: set of <<tx, rx>>].       *)
(***************************************************************************)
Tx(v) == <<2 * v[1], 2 * v[2]>>

\* (n[0]+x, n[1]+y) for x in [-0.5, 0.5] for y in [-0.5, 0.5]
Corners(n) ==
    <<<<n[1] - 1, n[2] - 1>>, <<n[1] - 1, n[2] + 1>>,
      <<n[1] + 1, n[2] - 1>>, <<n[1] + 1, n[2] + 1>>>>

\* network.adj[tx] of a transmitter, in insertion order
AdjOfTx(network, tx) ==
    SelectSeq(Corners(tx), LAMBDA m : <<tx, m>> \in network.edges)

\* network.adj[rx] of a receiver
AdjOfRx(network, rx) ==
    {t \in SeqToSet(Corners(rx)) : <<t, rx>> \in network.edges}

\* l.171-175: the source nodes, num_transmitters = 1, num_receivers = 0
SourceNetwork(source_nodes) ==
    LET order == [i \in 1..Len(source_nodes) |-> Tx(source_nodes[i])]
    IN  [order |-> order,
         num_transmitters |-> [n \in SeqToSet(order) |-> 1],
         num_receivers |-> [n \in SeqToSet(order) |-> 0],
         edges |-> {}]

\* the concatenation of parts[lo], ..., parts[hi]
RECURSIVE Concat(_, _, _)
Concat(parts, lo, hi) ==
    IF lo > hi THEN <<>>
    ELSE IF lo = hi THEN parts[lo]
    ELSE LET mid == (lo + hi) \div 2
         IN  Concat(parts, lo, mid) \o Concat(parts, mid + 1, hi)

\* l.178-184: every transmitter n adds its four corners as receivers
\* (num_receivers = 1, num_transmitters = 0) and an edge to each.  A corner
\* enters the node order when the first transmitter of tx_list that has it
\* adds it.
AddReceivers(network, tx_list) ==
    LET txs == SeqToSet(tx_list)
        old == SeqToSet(network.order)
        pos == [n \in txs |-> CHOOSE i \in 1..Len(tx_list) : tx_list[i] = n]
        rxs == UNION {SeqToSet(Corners(n)) : n \in txs}
        IsNew(i, m) ==
            /\ m \notin old
            /\ \A t \in SeqToSet(Corners(m)) \cap txs : pos[t] >= i
        NewOf == [i \in 1..Len(tx_list) |->
                    SelectSeq(Corners(tx_list[i]), LAMBDA m : IsNew(i, m))]
        all == old \cup rxs
    IN  IF Strict(pos) /\ Strict(rxs) /\ Strict(NewOf) THEN
          [order |-> network.order \o Concat(NewOf, 1, Len(tx_list)),
           num_transmitters |->
               [n \in all |-> IF n \in rxs THEN 0 ELSE network.num_transmitters[n]],
           num_receivers |->
               [n \in all |-> IF n \in rxs THEN 1 ELSE network.num_receivers[n]],
           edges |-> network.edges \cup
                       {<<n, Corners(n)[j]>> : n \in txs, j \in 1..4}]
        ELSE network

\* Python min() / max() of the node tuples
LexMin(S) == CHOOSE n \in S : \A m \in S : n = m \/ LexLess(n, m)
LexMax(S) == CHOOSE n \in S : \A m \in S : n = m \/ LexLess(m, n)

\* l.186-191: remove boundary receivers
OnBound(n, left_bound, top_bound) ==
    n[1] = left_bound \/ n[1] = top_bound \/ n[2] = left_bound \/ n[2] = top_bound

RemoveBoundary(network) ==
    LET S == SeqToSet(network.order)
        left_bound == LexMin(S)[1]
        top_bound == LexMax(S)[1]
    IN  IF Strict(left_bound) /\ Strict(top_bound) THEN
          [network EXCEPT !.num_receivers =
              [n \in S |-> IF OnBound(n, left_bound, top_bound)
                           THEN 0 ELSE network.num_receivers[n]]]
        ELSE network

RxNodes(network) ==
    SelectSeq(network.order, LAMBDA n : network.num_receivers[n] = 1)

TxNodes(network) ==
    SelectSeq(network.order, LAMBDA n : network.num_transmitters[n] = 1)

\* sum(network.nodes[n]['num_receivers'] for n in network.adj[tx])
NumRxNeighbors(network, tx) ==
    Cardinality({m \in SeqToSet(AdjOfTx(network, tx)) :
                    network.num_receivers[m] = 1})

\* adj_tx_adj_rx[rx] (l.200-202)
RECURSIVE SumOver(_, _, _)
SumOver(network, S, acc) ==
    IF S = {} THEN acc
    ELSE LET t == CHOOSE t \in S : TRUE
         IN  SumOver(network, S \ {t}, acc + NumRxNeighbors(network, t))

AdjTxAdjRx(network, rx) == SumOver(network, AdjOfRx(network, rx), 0)

\* int(num_rx - num_tx/ratio)
NumRxToDelete(num_rx, num_tx, ratio) ==
    TruncDiv(num_rx * ratio[1] - num_tx * ratio[2], ratio[1])

\* random.sample(pop, k): <<chosen set, generator state>>
RECURSIVE Sample(_, _, _, _)
Sample(pop, k, rng, chosen) ==
    IF k = 0 THEN <<chosen, rng>>
    ELSE LET i == RandBelow(rng, Len(pop)) + 1
             rest == RemoveAt(pop, i)
             more == chosen \cup {pop[i]}
         IN  IF Strict(rest) /\ Strict(more)
             THEN Sample(rest, k - 1, rng + 1, more)
             ELSE <<chosen, rng>>

\* the while loop of l.199-207; "hang" when an iteration changes nothing
RECURSIVE Dilute(_, _, _, _, _)
Dilute(network, rx_nodes, num_tx, ratio, rng) ==
    LET num_rx_to_delete == NumRxToDelete(Len(rx_nodes), num_tx, ratio)
    IN  IF ~(50 * num_rx_to_delete > num_tx)
        THEN [status |-> "ok", network |-> network, rng |-> rng]
        ELSE IF rx_nodes = <<>>
        THEN [status |-> "ValueError", network |-> network, rng |-> rng]
        ELSE
          LET cnt == [rx \in SeqToSet(rx_nodes) |-> AdjTxAdjRx(network, rx)]
              mx == CHOOSE c \in {cnt[rx] : rx \in SeqToSet(rx_nodes)} :
                        \A rx \in SeqToSet(rx_nodes) : cnt[rx] <= c
              rx_max_adj_rx == SelectSeq(rx_nodes, LAMBDA rx : cnt[rx] = mx)
              k == Min2(Len(rx_max_adj_rx), num_tx \div 50)
              drawn == Sample(rx_max_adj_rx, k, rng, {})
              rx_to_delete == drawn[1]
              diluted == [network EXCEPT !.num_receivers =
                            [n \in DOMAIN network.num_receivers |->
                               IF n \in rx_to_delete THEN 0
                               ELSE network.num_receivers[n]]]
          IN  IF ~Strict(cnt) \/ k = 0
              THEN [status |-> "hang", network |-> network, rng |-> rng]
              ELSE LET rx_left == RxNodes(diluted)
                   IN  IF Strict(diluted) /\ Strict(rx_left)
                       THEN Dilute(diluted, rx_left, num_tx, ratio, drawn[2])
                       ELSE [status |-> "hang", network |-> network, rng |-> rng]

\* l.213: the candidates of a transmitter without receiver
Candidates(network, tx) ==
    SelectSeq(AdjOfTx(network, tx), LAMBDA n : network.num_receivers[n] = 0)

\* l.211-215 for one transmitter: <<network, generator state>>
\* mutant of Reconnect: a transmitter without receiver is left alone
ReconnectNever(network, tx, rng) == <<network, rng>>

Reconnect(network, tx, rng) ==
    IF NumRxNeighbors(network, tx) = 0 THEN
        LET candidates == Candidates(network, tx)
            add_rx == candidates[RandBelow(rng, Len(candidates)) + 1]
        IN  <<[network EXCEPT !.num_receivers[add_rx] = 1], rng + 1>>
    ELSE <<network, rng>>

\* l.210-215: prevent disconnected transmitters.  The loop changes nothing
\* at a transmitter that has a receiver, and receivers are only added, so it
\* is run over the transmitters that enter it without one.
RECURSIVE ReconnectLoop(_, _, _, _)
ReconnectLoop(network, todo, i, rng) ==
    IF i > Len(todo) THEN network
    ELSE LET r == Reconnect(network, todo[i], rng)
         IN  IF Strict(r) THEN ReconnectLoop(r[1], todo, i + 1, r[2]) ELSE network

\* mutant of ReconnectAll: the loop stops after the first transmitter it fixes
ReconnectAllFirstOnly(network, tx_nodes, rng) ==
    LET todo == SelectSeq(tx_nodes, LAMBDA tx : NumRxNeighbors(network, tx) = 0)
    IN  ReconnectLoop(network, SubSeq(todo, 1, Min2(1, Len(todo))), 1, rng)

ReconnectAll(network, tx_nodes, rng) ==
    ReconnectLoop(network,
                  SelectSeq(tx_nodes, LAMBDA tx : NumRxNeighbors(network, tx) = 0),
                  1, rng)

\* l.217-219: the embedding re-keyed by index, in linear qubit labels
LinearEmb(L) ==
    [i \in 1..Len(L.nodes) |->
        <<pegasus_to_linear(L.emb[L.nodes[i]][1]),
          pegasus_to_linear(L.emb[L.nodes[i]][2])>>]

EmptyNetwork ==
    [order |-> <<>>, num_transmitters |-> <<>>, num_receivers |-> <<>>,
     edges |-> {}]

\* diluted is the network as the dilution loop left it (before l.209)
NoNet == [status |-> "none", stage |-> "none", network |-> EmptyNetwork,
          diluted |-> EmptyNetwork, emb |-> <<>>]

\* l.166: network_size not in range(2, 17)
SupportedLo == 2
SupportedHi == 16

SizeSupported(network_size) == network_size \in SupportedLo..SupportedHi

\* configure_network after the size check, on the lattice L
ConfigureOn(L, ratio, seed) ==
    IF L.nodes = <<>> THEN
        \* min() of an empty sequence
        [NoNet EXCEPT !.status = "ValueError", !.stage = "bounds"]
    ELSE
      LET n0 == SourceNetwork(L.nodes)
          n1 == AddReceivers(n0, n0.order)
          n2 == RemoveBoundary(n1)
          tx_nodes == TxNodes(n2)
          d == Dilute(n2, RxNodes(n2), Len(tx_nodes), ratio, seed)
      IN  IF ~(Strict(n0) /\ Strict(n1) /\ Strict(n2) /\ Strict(d)) \/ d.status # "ok"
          THEN
              [NoNet EXCEPT !.status = d.status, !.stage = "dilute"]
          ELSE
              [status |-> "returned", stage |-> "return",
               network |-> ReconnectAll(d.network, tx_nodes, d.rng),
               diluted |-> d.network,
               emb |-> LinearEmb(L)]

(***************************************************************************)
(* helpers/network.py : _num_tx_rx, print_network_stats                    *)
(***************************************************************************)
\* sum(f.values()): each value times the number of nodes carrying it
RECURSIVE SumValues(_, _)
SumValues(f, vals) ==
    IF vals = {} THEN 0
    ELSE LET v == CHOOSE v \in vals : TRUE
         IN  v * Cardinality({n \in DOMAIN f : f[n] = v}) + SumValues(f, vals \ {v})

SumAttr(f) == SumValues(f, {f[n] : n \in DOMAIN f})

_num_tx_rx(network) ==
    <<SumAttr(network.num_transmitters), SumAttr(network.num_receivers)>>

\* Python round() of the rational a / b, b > 0, a >= 0: half to even
RoundHalfEven(a, b) ==
    LET q == a \div b
        r == a % b
    IN  IF 2 * r < b THEN q
        ELSE IF 2 * r > b THEN q + 1
        ELSE IF q % 2 = 0 THEN q ELSE q + 1

\* the lines print_network_stats writes, or the exception it raises
print_network_stats(network) ==
    LET t == _num_tx_rx(network)
        num_tx == t[1]
        num_rx == t[2]
    IN  IF num_rx = 0 THEN [raised |-> "ZeroDivisionError", lines |-> <<>>]
        ELSE [raised |-> "no",
              lines |-> <<[text |-> "Ratio of transmitters to receivers",
                           a |-> RoundHalfEven(100 * num_tx, num_rx),
                           b |-> 0],
                          [text |-> "Network has",
                           a |-> num_tx, b |-> num_rx]>>]

(***************************************************************************)
(* Inputs.                                                                 *)
(***************************************************************************)
\* sizes tried: everything up to MaxNetworkSize, and one above the range
NetworkSizes == (0..MaxNetworkSize) \cup {SupportedHi + 1}

\* ratio 1.5 (the default) and ratio 5
Ratios == {<<3, 2>>, <<5, 1>>}

Seeds == 0..(MaxSeed - 1)

\* defects are drawn among the qubits of the chains of the lattice's first
\* two rows and columns, and the couplers between them
DefectWindow == {0, 1}

DefectQubits ==
    UNION {{_node_to_chain(r, c)[1], _node_to_chain(r, c)[2]} :
              r \in DefectWindow, c \in DefectWindow}

DefectCouplers ==
    {{e[1], e[2]} : e \in {d \in DefectQubits \X DefectQubits :
                              d[1] # d[2] /\ PegasusCoupled(d[1], d[2])}}

RECURSIVE UpTo(_, _)
\* the subsets of S with at most n elements
UpTo(S, n) ==
    IF n = 0 THEN {{}}
    ELSE LET smaller == UpTo(S, n - 1)
         IN  smaller \cup {T \cup {x} : T \in smaller, x \in S}

Qpus ==
    {NoQpu} \cup
    {[present |-> TRUE, missing_qubits |-> MQ, missing_couplers |-> MC] :
        <<MQ, MC>> \in {d \in UpTo(DefectQubits, MaxDefects) \X
                                UpTo(DefectCouplers, MaxDefects) :
                           Cardinality(d[1]) + Cardinality(d[2]) <= MaxDefects}}

\* the qubits of the chains of the smallest lattice
SmallLattice == (0..(Scale(SupportedLo) - 1)) \X (0..(Scale(SupportedLo) - 1))

ChainQubits(K) ==
    UNION {{_node_to_chain(v[1], v[2])[1], _node_to_chain(v[1], v[2])[2]} : v \in K}

\* a QPU on which only the chains of at most MaxAlive lattice nodes work
SparseQpus ==
    {[present |-> TRUE, missing_qubits |-> ChainQubits(SmallLattice \ K),
      missing_couplers |-> {}] : K \in UpTo(SmallLattice, MaxAlive)}

\* a QPU with one dead qubit, in the chain of lattice node (1, 1)
OneDeadQubit ==
    {[present |-> TRUE, missing_qubits |-> {_node_to_chain(1, 1)[i]},
      missing_couplers |-> {}] : i \in {1, 2}}

\* the calls tried, <<network_size, qpu>>
SmallSizes == {SupportedLo}

CallShapes ==
    {<<n, NoQpu>> : n \in NetworkSizes}
    \cup {<<n, q>> : n \in SmallSizes, q \in Qpus \cup SparseQpus}
    \cup {<<MaxNetworkSize, q>> : q \in OneDeadQubit}

NoLattice == [built |-> FALSE, L |-> EmptyLattice]

NoArgs == [network_size |-> 0, qpu |-> NoQpu, ratio |-> <<3, 2>>, seed |-> 0]

InitNet ==
    /\ pc = "idle"
    /\ args = NoArgs
    /\ lattice = NoLattice
    /\ net = NoNet
    /\ stdout = <<>>
    /\ filt = 0
    /\ loop = 0
    /\ jn = 0

\* a direct call _create_lattice(network_size, qpu)
CreateLattice ==
    /\ pc = "idle"
    /\ \E network_size \in 0..SupportedLo : \E qpu \in Qpus \cup SparseQpus :
         /\ args' = [NoArgs EXCEPT !.network_size = network_size, !.qpu = qpu]
         /\ lattice' = [built |-> TRUE, L |-> _create_lattice(network_size, qpu)]
    /\ pc' = "lattice"
    /\ UNCHANGED <<net, stdout, filt, loop, jn>>

\* a call configure_network(network_size, qpu, ratio) under generator seed
ConfigureNetwork ==
    /\ pc = "idle"
    /\ \E shape \in CallShapes : \E ratio \in Ratios : \E seed \in Seeds :
       LET network_size == shape[1]
           qpu == shape[2]
       IN
         /\ args' = [network_size |-> network_size, qpu |-> qpu,
                     ratio |-> ratio, seed |-> seed]
         /\ IF ~SizeSupported(network_size) THEN
               /\ net' = [NoNet EXCEPT !.status = "ValueError", !.stage = "size"]
               /\ lattice' = lattice
            ELSE
               LET L == _create_lattice(network_size, qpu)
               IN  /\ lattice' = [built |-> TRUE, L |-> L]
                   /\ net' = ConfigureOn(L, ratio, seed)
    /\ pc' = "configured"
    /\ UNCHANGED <<stdout, filt, loop, jn>>

\* print_network_stats(network) on the network configure_network returned
PrintNetworkStats ==
    /\ pc = "configured"
    /\ net.status = "returned"
    /\ LET r == print_network_stats(net.network)
       IN  /\ stdout' = stdout \o r.lines
           /\ pc' = IF r.raised = "no" THEN "printed" ELSE r.raised
    /\ UNCHANGED <<args, lattice, net, filt, loop, jn>>

NextNet == CreateLattice \/ ConfigureNetwork \/ PrintNetworkStats

SpecNet == InitNet /\ [][NextNet]_vars


(***************************************************************************)
(* Claims about configure_network, print_network_stats, _create_lattice.   *)
(***************************************************************************)
ReceiversOn(network) ==
    {n \in DOMAIN network.num_receivers : network.num_receivers[n] = 1}

\* C1 (as claimed): configure_network raises ValueError, before any lattice
\* is built, for every network_size outside 4..16.
C1_RaisesOutside4To16 ==
    (pc = "configured" /\ args.network_size \notin 4..16)
        => (net.status = "ValueError" /\ net.stage = "size" /\ ~lattice.built)

\* C4: a returned network has at least one active receiver, so
\* print_network_stats never divides by zero and its first line is the
\* ratio line.
C4_ReturnedNetworkHasReceiver ==
    /\ net.status = "returned" => _num_tx_rx(net.network)[2] >= 1
    /\ pc # "ZeroDivisionError"
    /\ pc = "printed" =>
          /\ Len(stdout) >= 1
          /\ stdout[1].text = "Ratio of transmitters to receivers"

\* C4 witness: statistics were printed for a network whose receivers had all
\* been turned off before the disconnected transmitters were handled.
C4_Witness ==
    /\ pc = "printed"
    /\ net.diluted.order # <<>>
    /\ ReceiversOn(net.diluted) = {}
    /\ stdout # <<>>

\* C8: on return every transmitter has an adjacent node with num_receivers = 1.
C8_EveryTransmitterHasReceiver ==
    net.status = "returned" =>
        \A tx \in DOMAIN net.network.num_transmitters :
            net.network.num_transmitters[tx] = 1 =>
                \E j \in 1..4 :
                    /\ <<tx, Corners(tx)[j]>> \in net.network.edges
                    /\ net.network.num_receivers[Corners(tx)[j]] = 1

\* C8 witness: the dilution loop turned receivers off and left a transmitter
\* of the full lattice without any; the call returned.
C8_Witness ==
    /\ net.status = "returned"
    /\ ~args.qpu.present
    /\ Cardinality(ReceiversOn(net.diluted)) < Cardinality(ReceiversOn(net.network))
    /\ \E tx \in SeqToSet(TxNodes(net.diluted)) : NumRxNeighbors(net.diluted, tx) = 0

\* C9 (as claimed): without QPU, no node on the smallest (-0.5) or largest
\* (3*(network_size-1)-0.5) receiver coordinate has num_receivers = 1 on return.
C9_NoBoundaryReceiver ==
    (net.status = "returned" /\ ~args.qpu.present) =>
        \A n \in DOMAIN net.network.num_receivers :
            (n[1] = -1 \/ n[2] = -1
               \/ n[1] = 6 * (args.network_size - 1) - 1
               \/ n[2] = 6 * (args.network_size - 1) - 1)
                => net.network.num_receivers[n] # 1

LatticeNeighbours(v, w) ==
    /\ v # w
    /\ v[1] - w[1] \in {-1, 0, 1}
    /\ v[2] - w[2] \in {-1, 0, 1}

\* C10: (emb, source) is a valid embedding into the target: emb's keys are
\* the source nodes, every chain is a target edge, every source edge joins
\* lattice neighbours whose chains share a target edge, and lattice
\* neighbours that both remain are joined.
C10_ValidEmbedding ==
    lattice.built =>
        LET L == lattice.L
            N == SeqToSet(L.nodes)
        IN  /\ DOMAIN L.emb = N
            /\ \A v \in N : TargetHasEdge(args.qpu, L.emb[v][1], L.emb[v][2])
            /\ \A e \in L.edges :
                  \E v \in N : \E w \in N :
                      /\ e = {v, w}
                      /\ LatticeNeighbours(v, w)
                      /\ \E i \in 1..2 : \E j \in 1..2 :
                            TargetHasEdge(args.qpu, L.emb[v][i], L.emb[w][j])
            /\ \A v \in N : \A w \in N :
                  LatticeNeighbours(v, w) => {v, w} \in L.edges

\* C10 witness: a lattice built on a target with a dead chain and a missing
\* coupling, that still has nodes and edges.
C10_Witness ==
    /\ lattice.built
    /\ lattice.L.node_defects >= 1
    /\ lattice.L.edge_defects >= 1
    /\ lattice.L.edges # {}


(***************************************************************************)
(* helpers/filters.py : create_filters, apply_filters, compare_signals     *)
(* helpers/network.py : simulate_signals                                   *)
(*                                                                         *)
(* An optional argument is a record [given, ...]: given = FALSE is None.   *)
(* A column array of symbols is the sequence of its entries.               *)
(***************************************************************************)
ALL_METHODS == <<"zero_forcing", "matched_filter", "MMSE">>

\* f'filter_{method}'
FilterKey(method) == "filter_" \o method

\* the keys of a dict filled in the order of seq: first insertion order
RECURSIVE DictKeys(_, _)
DictKeys(seq, acc) ==
    IF seq = <<>> THEN acc
    ELSE DictKeys(Tail(seq),
                  IF Head(seq) \in SeqToSet(acc) THEN acc ELSE Append(acc, Head(seq)))

\* mutant of Unknown: only the first requested method is looked at
UnknownFirstOnly(methods) == {methods[1]} \ SeqToSet(ALL_METHODS)

\* set(methods).difference(ALL_METHODS)
Unknown(methods) == SeqToSet(methods) \ SeqToSet(ALL_METHODS)

\* mutant of create_filters: the requested methods are ignored
create_filters_all(methods) ==
    [raised |-> "no",
     keys |-> [i \in 1..Len(ALL_METHODS) |-> FilterKey(ALL_METHODS[i])],
     instantiated |-> Len(ALL_METHODS)]

\* create_filters(channels, methods): the exception raised, the keys of the
\* returned dict and the number of linear_filter instantiations
create_filters(methods) ==
    IF ~methods.given \/ methods.list = <<>> THEN
        [raised |-> "no",
         keys |-> [i \in 1..Len(ALL_METHODS) |-> FilterKey(ALL_METHODS[i])],
         instantiated |-> Len(ALL_METHODS)]
    ELSE IF Unknown(methods.list) # {} THEN
        [raised |-> "ValueError", keys |-> <<>>, instantiated |-> 0]
    ELSE
        [raised |-> "no",
         keys |-> DictKeys([i \in 1..Len(methods.list) |-> FilterKey(methods.list[i])],
                           <<>>),
         instantiated |-> Len(methods.list)]

\* sum(v[filter].flatten() == transmission.flatten())
Matches(decoded, transmission) ==
    Cardinality({i \in 1..Len(transmission) : decoded[i] = transmission[i]})

\* round(100*val/len(transmission))
SuccessRate(decoded, transmission) ==
    RoundHalfEven(100 * Matches(decoded, transmission), Len(transmission))

\* compare_signals(v, transmission, silent_return) for a dict v with the
\* given keys: the lines printed and the value returned
compare_signals(keys, v, transmission, silent_return) ==
    LET success_rate == [k \in SeqToSet(keys) |-> SuccessRate(v[k], transmission)]
    IN  IF ~silent_return THEN
            [lines |-> [i \in 1..Len(keys) |->
                          [text |-> keys[i] \o ": decoded with a success rate of",
                           a |-> success_rate[keys[i]], b |-> 0]],
             returned |-> [given |-> FALSE, rates |-> <<>>]]
        ELSE
            [lines |-> <<>>,
             returned |-> [given |-> TRUE, rates |-> success_rate]]

\* bool(array): an array of more than one element has no truth value
ArrayTruth(a) ==
    IF Len(a) = 0 THEN "False"
    ELSE IF Len(a) = 1 THEN (IF a[1] # 0 THEN "True" ELSE "False")
    ELSE "ValueError"

\* simulate_signals(channels, channel_power, transmitted_symbols): the
\* exception raised, the symbols passed to _create_signal and returned as v,
\* and whether random symbols were drawn (drawn is numpy's draw).
simulate_signals(num_tx, transmitted_symbols, drawn) ==
    LET truth == IF transmitted_symbols.given
                 THEN ArrayTruth(transmitted_symbols.symbols) ELSE "False"
    IN  IF truth = "ValueError" THEN
            [raised |-> "ValueError", v |-> <<>>, drew |-> FALSE]
        ELSE IF truth = "False" THEN
            [raised |-> "no", v |-> drawn, drew |-> TRUE]
        ELSE
            [raised |-> "no", v |-> transmitted_symbols.symbols, drew |-> FALSE]

(***************************************************************************)
(* The filter pipeline: simulate_signals, create_filters, apply_filters,   *)
(* compare_signals.                                                        *)
(***************************************************************************)
Symbols == {1, -1}

MethodNames == SeqToSet(ALL_METHODS) \cup {"least_squares"}

\* methods: None, or a list of up to two names
MethodInputs ==
    {[given |-> FALSE, list |-> <<>>], [given |-> TRUE, list |-> <<>>]}
    \cup {[given |-> TRUE, list |-> <<a>>] : a \in MethodNames}
    \cup {[given |-> TRUE, list |-> <<a, b>>] : a \in MethodNames, b \in MethodNames}

NoFilt ==
    [num_tx |-> 0,
     supplied |-> [given |-> FALSE, symbols |-> <<>>],
     sim |-> [raised |-> "no", v |-> <<>>, drew |-> FALSE],
     methods |-> [given |-> FALSE, list |-> <<>>],
     created |-> [raised |-> "no", keys |-> <<>>, instantiated |-> 0],
     decoded |-> <<>>,
     silent_return |-> FALSE,
     returned |-> [given |-> FALSE, rates |-> <<>>]]

InitFilters ==
    /\ pc = "idle"
    /\ args = NoArgs
    /\ lattice = NoLattice
    /\ net = NoNet
    /\ stdout = <<>>
    /\ filt = NoFilt
    /\ loop = 0
    /\ jn = 0

SimulateSignals ==
    /\ pc = "idle"
    /\ \E num_tx \in 1..MaxTx :
       \E supplied \in {[given |-> FALSE, symbols |-> <<>>]} \cup
                       {[given |-> TRUE, symbols |-> a] : a \in [1..num_tx -> Symbols]} :
       \E drawn \in [1..num_tx -> Symbols] :
         LET r == simulate_signals(num_tx, supplied, drawn)
         IN  /\ filt' = [filt EXCEPT !.num_tx = num_tx, !.supplied = supplied,
                                     !.sim = r]
             /\ pc' = IF r.raised = "no" THEN "simulated" ELSE "simulate_raised"
    /\ UNCHANGED <<args, lattice, net, stdout, loop, jn>>

CreateFilters ==
    /\ pc = "simulated"
    /\ \E methods \in MethodInputs :
         LET r == create_filters(methods)
         IN  /\ filt' = [filt EXCEPT !.methods = methods, !.created = r]
             /\ pc' = IF r.raised = "no" THEN "created" ELSE "create_raised"
    /\ UNCHANGED <<args, lattice, net, stdout, loop, jn>>

\* apply_filters(signal, filters): one decoded symbol vector per filter, each
\* entry np.sign of a real number
ApplyFilters ==
    /\ pc = "created"
    /\ \E decoded \in [SeqToSet(filt.created.keys) -> [1..filt.num_tx -> {-1, 0, 1}]] :
         filt' = [filt EXCEPT !.decoded = decoded]
    /\ pc' = "applied"
    /\ UNCHANGED <<args, lattice, net, stdout, loop, jn>>

CompareSignals ==
    /\ pc = "applied"
    /\ \E silent_return \in BOOLEAN :
         LET r == compare_signals(filt.created.keys, filt.decoded, filt.sim.v,
                                  silent_return)
         IN  /\ stdout' = stdout \o r.lines
             /\ filt' = [filt EXCEPT !.silent_return = silent_return,
                                     !.returned = r.returned]
    /\ pc' = "compared"
    /\ UNCHANGED <<args, lattice, net, loop, jn>>

NextFilters == SimulateSignals \/ CreateFilters \/ ApplyFilters \/ CompareSignals

SpecFilters == InitFilters /\ [][NextFilters]_vars


(***************************************************************************)
(* Properties of the filter pipeline                                       *)
(***************************************************************************)
PastCreate == pc \in {"created", "applied", "compared"}

\* the methods M of a request: all three when omitted
RequestedSet(methods) ==
    IF methods.given THEN SeqToSet(methods.list) ELSE SeqToSet(ALL_METHODS)

\* the methods whose filters the amended statement expects
EffectiveSet(methods) ==
    IF methods.given /\ methods.list # <<>> THEN SeqToSet(methods.list)
    ELSE SeqToSet(ALL_METHODS)

\* keys holds each 'filter_<m>', m in M, exactly once and nothing else
KeysAre(keys, M) ==
    /\ SeqToSet(keys) = {FilterKey(m) : m \in M}
    /\ Len(keys) = Cardinality(M)

\* apply_filters has the keys of the filters, and with silent_return=False
\* compare_signals printed one line per key with a rate in 0..100
AppliedAndPrinted ==
    /\ (pc \in {"applied", "compared"} =>
            DOMAIN filt.decoded = SeqToSet(filt.created.keys))
    /\ (pc = "compared" /\ ~filt.silent_return =>
            /\ Len(stdout) = Len(filt.created.keys)
            /\ \A i \in 1..Len(stdout) :
                 /\ stdout[i].text =
                      filt.created.keys[i] \o ": decoded with a success rate of"
                 /\ stdout[i].a \in 0..100
            /\ ~filt.returned.given)

\* C5 (as claimed): for any set M of supported methods (all three when M is
\* omitted) create_filters returns exactly the keys filter_<m>, m in M;
\* apply_filters returns the same keys; compare_signals prints one line per
\* key with an integer rate in 0..100.
C5_KeysForAnySet ==
    PastCreate /\ RequestedSet(filt.methods) \subseteq SeqToSet(ALL_METHODS) =>
        /\ KeysAre(filt.created.keys, RequestedSet(filt.methods))
        /\ AppliedAndPrinted

\* C5 (amended): the same for any non-empty M, and all three filters when M
\* is omitted or empty.
C5_KeysForNonEmptySet ==
    PastCreate /\ RequestedSet(filt.methods) \subseteq SeqToSet(ALL_METHODS) =>
        /\ KeysAre(filt.created.keys, EffectiveSet(filt.methods))
        /\ AppliedAndPrinted

\* C5 witness: two different methods were requested and the comparison
\* printed a line per filter, one with a rate strictly between 0 and 100.
C5_Witness ==
    /\ pc = "compared"
    /\ ~filt.silent_return
    /\ filt.methods.given
    /\ Cardinality(SeqToSet(filt.methods.list)) = 2
    /\ Len(stdout) = 2
    /\ \E i \in 1..Len(stdout) : stdout[i].a \notin {0, 100}

\* C6: create_filters raises ValueError, with no filter instantiated, whenever
\* a requested method is not one of the three, and never raises when every
\* requested method is one of the three.
C6_UnknownMethodRaises ==
    pc \in {"create_raised", "created", "applied", "compared"} =>
        /\ (filt.created.raised = "ValueError") <=>
              (filt.methods.given /\
               \E i \in 1..Len(filt.methods.list) :
                   filt.methods.list[i] \notin {"matched_filter", "MMSE", "zero_forcing"})
        /\ (filt.created.raised = "ValueError" => filt.created.instantiated = 0)
        /\ (filt.created.raised = "no" => filt.created.instantiated > 0)

\* C6 witness: a supported method followed by an unknown one was requested
\* and create_filters raised.
C6_Witness ==
    /\ pc = "create_raised"
    /\ Len(filt.methods.list) = 2
    /\ filt.methods.list[1] = "MMSE"
    /\ filt.methods.list[2] \notin SeqToSet(ALL_METHODS)

\* C7 (as claimed): when transmitted_symbols is supplied as an array of +1/-1
\* symbols, one per transmitter, simulate_signals does not raise and passes
\* exactly those symbols on; random symbols are drawn only when none are
\* supplied.
C7_SuppliedSymbolsUsed ==
    pc # "idle" =>
        /\ (filt.supplied.given =>
               /\ filt.sim.raised = "no"
               /\ filt.sim.v = filt.supplied.symbols)
        /\ (filt.sim.drew => ~filt.supplied.given)

(***************************************************************************)
(* helpers/general.py : loop_comparisons                                   *)
(*                                                                         *)
(* The samplers and the QPU are outside the repository: a sampler is the   *)
(* fact that it was constructed, a submission is counted, and the number   *)
(* of symbols a sample set gets right is an outcome.  numpy's generator    *)
(* is the state rng, as for configure_network.                             *)
(***************************************************************************)
\* l.43: if runs < 3
MinRuns == 3

\* mutant of RunsRejected: two runs are let through
RunsRejectedBelowTwo(runs) == runs < MinRuns - 1

RunsRejected(runs) == runs < MinRuns

\* configure_network(network_size, qpu, ratio) under generator seed
configure_network(network_size, qpu, ratio, seed) ==
    IF ~SizeSupported(network_size) THEN
        [NoNet EXCEPT !.status = "ValueError", !.stage = "size"]
    ELSE ConfigureOn(_create_lattice(network_size, qpu), ratio, seed)

\* the elements of seq that are in S, in the order of seq
RECURSIVE Select(_, _)
Select(seq, S) ==
    IF seq = <<>> THEN <<>>
    ELSE IF Head(seq) \in S THEN <<Head(seq)>> \o Select(Tail(seq), S)
    ELSE Select(Tail(seq), S)

\* np.random.choice([1, -1], size=[num_tx, 1])
RandomSymbols(num_tx, rng) ==
    [i \in 1..num_tx |-> IF RandBelow(rng + i, 2) = 0 THEN 1 ELSE -1]

\* np.sign of the filtered signal, one vector per filter
FilteredSigns(keys, num_tx, rng) ==
    [k \in SeqToSet(keys) |->
        [i \in 1..num_tx |-> RandBelow(rng + i + Len(k), 3) - 1]]

\* round(100 * matches / len(transmitted_symbols))
Avg(matches, num_tx) == RoundHalfEven(100 * matches, num_tx)

NoLoop ==
    [runs |-> 0, solvers |-> <<>>, raised |-> "no", stage |-> "none",
     configured |-> FALSE, samplers |-> {}, submitted |-> 0,
     num_tx |-> 0, run |-> 0, rng |-> 0, results |-> <<>>]

\* results[key].append(value) for each key of keys
AppendAll(results, keys, value) ==
    [k \in DOMAIN results |->
        IF k \in keys THEN Append(results[k], value[k]) ELSE results[k]]

\* the samples a QPU or classical sampler returns get either every symbol
\* wrong or every symbol right
SampleOutcomes(num_tx) == {0, num_tx}

SolverInputs ==
    {<<"matched_filter">>, <<"MMSE", "SA">>, <<"greedy", "tabu">>, <<>>}

LoopQpus ==
    {q \in Qpus : q.present /\ q.missing_couplers = {}
                            /\ Cardinality(q.missing_qubits) <= 1}

LoopSizes == {SupportedLo - 1, SupportedLo}

InitLoop ==
    /\ pc = "idle"
    /\ args = NoArgs
    /\ lattice = NoLattice
    /\ net = NoNet
    /\ stdout = <<>>
    /\ filt = NoFilt
    /\ loop = NoLoop
    /\ jn = 0

\* loop_comparisons up to the first iteration: l.43-61
LoopComparisons ==
    /\ pc = "idle"
    /\ \E runs \in (-1)..MaxRuns : \E network_size \in LoopSizes :
       \E qpu \in LoopQpus : \E ratio \in Ratios : \E seed \in Seeds :
       \E solvers \in SolverInputs :
         /\ args' = [network_size |-> network_size, qpu |-> qpu,
                     ratio |-> ratio, seed |-> seed]
         /\ IF RunsRejected(runs) THEN
               /\ loop' = [NoLoop EXCEPT !.runs = runs, !.solvers = solvers,
                                         !.raised = "ValueError", !.stage = "runs"]
               /\ UNCHANGED <<net, stdout>>
               /\ pc' = "loop_raised"
            ELSE
               LET c == configure_network(network_size, qpu, ratio, seed)
                   started == [NoLoop EXCEPT !.runs = runs, !.solvers = solvers,
                                             !.configured = TRUE]
               IN  /\ net' = c
                   /\ IF c.status # "returned" THEN
                         /\ loop' = [started EXCEPT !.raised = c.status,
                                                    !.stage = "configure_network"]
                         /\ stdout' = stdout
                         /\ pc' = "loop_raised"
                      ELSE
                         LET p == print_network_stats(c.network)
                         IN  IF p.raised # "no" THEN
                                 /\ loop' = [started EXCEPT !.raised = p.raised,
                                                 !.stage = "print_network_stats"]
                                 /\ stdout' = stdout
                                 /\ pc' = "loop_raised"
                             ELSE
                                 /\ loop' = [started EXCEPT
                                       !.stage = "loop",
                                       !.samplers = {"QPU", "SA", "greedy", "tabu"},
                                       !.num_tx = _num_tx_rx(c.network)[1],
                                       !.rng = seed,
                                       !.results = [k \in {"QPU"} \cup SeqToSet(solvers)
                                                       |-> <<>>]]
                                 /\ stdout' = stdout \o p.lines \o
                                       <<[text |-> "Run number: ", a |-> 0, b |-> 0]>>
                                 /\ pc' = "looping"
    /\ UNCHANGED <<lattice, filt, jn>>

\* one iteration of the loop over range(runs): l.63-106
LoopRun ==
    /\ pc = "looping"
    /\ loop.run < loop.runs
    /\ \E qpu_matches \in SampleOutcomes(loop.num_tx) :
         LET num_tx == loop.num_tx
             sim == simulate_signals(num_tx, [given |-> FALSE, symbols |-> <<>>],
                                     RandomSymbols(num_tx, loop.rng))
             methods == Select(ALL_METHODS, SeqToSet(loop.solvers))
             filters == create_filters([given |-> TRUE, list |-> methods])
             v == FilteredSigns(filters.keys, num_tx, loop.rng)
             filter_results == compare_signals(filters.keys, v, sim.v, TRUE).returned.rates
             classical == SeqToSet(loop.solvers) \cap {"SA", "greedy", "tabu"}
             r1 == AppendAll(loop.results, {"QPU"},
                             [k \in {"QPU"} |-> Avg(qpu_matches, num_tx)])
             r2 == AppendAll(r1, SeqToSet(methods),
                             [k \in SeqToSet(methods) |-> filter_results[FilterKey(k)]])
             r3 == AppendAll(r2, classical,
                             [k \in classical |->
                                 Avg(RandBelow(loop.rng + Len(k), num_tx + 1), num_tx)])
         IN  /\ loop' = [loop EXCEPT !.run = loop.run + 1,
                                     !.rng = loop.rng + 1,
                                     !.submitted = loop.submitted + 1,
                                     !.results = r3]
             /\ stdout' = Append(stdout, [text |-> "run", a |-> loop.run, b |-> 0])
    /\ pc' = "looping"
    /\ UNCHANGED <<args, lattice, net, filt, jn>>

\* l.108-110: the loop is over
LoopReturn ==
    /\ pc = "looping"
    /\ loop.run = loop.runs
    /\ loop' = [loop EXCEPT !.stage = "return"]
    /\ stdout' = Append(stdout, [text |-> "\n", a |-> 0, b |-> 0])
    /\ pc' = "loop_returned"
    /\ UNCHANGED <<args, lattice, net, filt, jn>>

NextLoop == LoopComparisons \/ LoopRun \/ LoopReturn

SpecLoop == InitLoop /\ [][NextLoop]_vars

(***************************************************************************)
(* Properties of loop_comparisons                                          *)
(***************************************************************************)
\* C2: loop_comparisons raises ValueError whenever runs < 3, before the
\* network is configured, any sampler is built or any problem is submitted
\* to the QPU; for runs >= 3 the check on runs never raises.
C2_RunsBelowThreeRaiseFirst ==
    pc # "idle" =>
        /\ (loop.runs < 3 =>
               /\ pc = "loop_raised"
               /\ loop.raised = "ValueError"
               /\ loop.stage = "runs"
               /\ ~loop.configured
               /\ net = NoNet
               /\ loop.samplers = {}
               /\ loop.submitted = 0
               /\ stdout = <<>>)
        /\ (loop.runs >= 3 => loop.stage # "runs" /\ loop.configured)

\* C2 witness: two runs were asked on a supported lattice size and the call
\* raised at the check on runs.
C2_Witness ==
    /\ pc = "loop_raised"
    /\ loop.runs = 2
    /\ loop.stage = "runs"
    /\ SizeSupported(args.network_size)

(***************************************************************************)
(* tests/test_jn.py : run_jn, collect_jn_errors, cell_text, test_jn        *)
(*                                                                         *)
(* A cell is [cell_type, has_outputs, outputs]; a markdown cell has no     *)
(* 'outputs' key.  An output is [output_type, has_text, text, ename]: text *)
(* is the set of phrases the output's text contains, ename tells error     *)
(* outputs apart.  Python's nb["cells"][i] is cells[i + 1].                *)
(***************************************************************************)
\* l.27: preprocessor.allow_errors = True
allow_errors == TRUE

Stream(phrases) ==
    [output_type |-> "stream", has_text |-> TRUE, text |-> phrases, ename |-> ""]

Error(ename) ==
    [output_type |-> "error", has_text |-> FALSE, text |-> {}, ename |-> ename]

DisplayData ==
    [output_type |-> "display_data", has_text |-> FALSE, text |-> {}, ename |-> ""]

Markdown == [cell_type |-> "markdown", has_outputs |-> FALSE, outputs |-> <<>>]

Code(outputs) == [cell_type |-> "code", has_outputs |-> TRUE, outputs |-> outputs]

\* l.67-121: the cells whose text is checked and the phrase looked for
TextChecks ==
    <<[cell |-> 4, phrase |-> "Ratio of transmitters to receivers"],
      [cell |-> 6, phrase |-> "Channels are represented by"],
      [cell |-> 8, phrase |-> "Created filters"],
      [cell |-> 10, phrase |-> "First 10 transmitted symbols"],
      [cell |-> 12, phrase |-> "filter_zero_forcing: decoded with a success rate"],
      [cell |-> 15, phrase |-> "For a network of"],
      [cell |-> 17, phrase |-> "Selected Advantage"],
      [cell |-> 19, phrase |-> "Ratio of transmitters to receivers"],
      [cell |-> 21, phrase |-> "BQM has"],
      [cell |-> 23, phrase |-> "Decoded with a success rate of"],
      [cell |-> 25, phrase |-> "Ratio of transmitters to receivers"],
      [cell |-> 27, phrase |-> "Ratio of transmitters to receivers"],
      [cell |-> 32, phrase |-> "Ratio of transmitters to receivers"],
      [cell |-> 34, phrase |-> "Ratio of transmitters to receivers"]>>

\* l.65: the cell whose outputs must be empty
ImportsCell == 2

\* the notebook has the cells the test indexes: 0 .. 34
NumCells == 35

\* the executed notebook when every cell does what the test expects
ExpectedCell(i) ==
    IF i = ImportsCell THEN Code(<<>>)
    ELSE IF \E k \in 1..Len(TextChecks) : TextChecks[k].cell = i
    THEN Code(<<Stream({TextChecks[CHOOSE k \in 1..Len(TextChecks) :
                                      TextChecks[k].cell = i].phrase})>>)
    ELSE Markdown

ExpectedCells == [i \in 1..NumCells |-> ExpectedCell(i - 1)]

\* run_jn(jn, timeout): executed is what the kernel produces for each cell when
\* every cell is run; a cell exceeding the timeout raises out of preprocess
run_jn(executed, timed_out) ==
    LET failing == {i \in 1..Len(executed) :
                       \E o \in 1..Len(executed[i].outputs) :
                           executed[i].outputs[o].output_type = "error"}
    IN  IF timed_out THEN
            [raised |-> "CellTimeoutError", cells |-> <<>>, ran |-> 0]
        ELSE IF ~allow_errors /\ failing # {} THEN
            [raised |-> "CellExecutionError", cells |-> <<>>,
             ran |-> CHOOSE i \in failing : \A j \in failing : i <= j]
        ELSE
            [raised |-> "no", cells |-> executed, ran |-> Len(executed)]

\* mutant of ErrorsOf: the scan of a cell stops at its first error
FirstErrorOf(outputs, o) ==
    IF \E k \in o..Len(outputs) : outputs[k].output_type = "error"
    THEN <<outputs[CHOOSE k \in o..Len(outputs) :
                      /\ outputs[k].output_type = "error"
                      /\ \A j \in o..(k - 1) : outputs[j].output_type # "error"]>>
    ELSE <<>>

\* the outputs of type 'error' among outputs, from index o on
RECURSIVE ErrorsOf(_, _)
ErrorsOf(outputs, o) ==
    IF o > Len(outputs) THEN <<>>
    ELSE (IF outputs[o].output_type = "error" THEN <<outputs[o]>> ELSE <<>>)
         \o ErrorsOf(outputs, o + 1)

\* collect_jn_errors(nb), from cell i on
RECURSIVE CollectFrom(_, _)
CollectFrom(cells, i) ==
    IF i > Len(cells) THEN <<>>
    ELSE (IF cells[i].has_outputs THEN ErrorsOf(cells[i].outputs, 1) ELSE <<>>)
         \o CollectFrom(cells, i + 1)

collect_jn_errors(nb) == CollectFrom(nb, 1)

\* cell_text(nb, cell): nb["cells"][cell]["outputs"][0]["text"]
cell_text(nb, cell) ==
    IF cell + 1 > Len(nb) THEN [raised |-> "IndexError", text |-> {}]
    ELSE IF ~nb[cell + 1].has_outputs THEN [raised |-> "KeyError", text |-> {}]
    ELSE IF nb[cell + 1].outputs = <<>> THEN [raised |-> "IndexError", text |-> {}]
    ELSE IF ~nb[cell + 1].outputs[1].has_text THEN [raised |-> "KeyError", text |-> {}]
    ELSE [raised |-> "no", text |-> nb[cell + 1].outputs[1].text]

\* l.67-121: the text checks from the k-th on; looked counts the calls of
\* cell_text
RECURSIVE CheckTexts(_, _, _)
CheckTexts(nb, k, looked) ==
    IF k > Len(TextChecks) THEN
        [verdict |-> "passed", stage |-> "end", looked |-> looked]
    ELSE
        LET t == cell_text(nb, TextChecks[k].cell)
        IN  IF t.raised # "no" THEN
                [verdict |-> "error", stage |-> "cell_text", looked |-> looked + 1]
            ELSE IF TextChecks[k].phrase \notin t.text THEN
                [verdict |-> "failed", stage |-> "assertTrue", looked |-> looked + 1]
            ELSE CheckTexts(nb, k + 1, looked + 1)

\* l.65 and on: assertEqual([], nb["cells"][2]["outputs"]), then the texts
CheckCellOutputs(nb) ==
    IF ImportsCell + 1 > Len(nb) THEN
        [verdict |-> "error", stage |-> "imports", looked |-> 0]
    ELSE IF ~nb[ImportsCell + 1].has_outputs THEN
        [verdict |-> "error", stage |-> "imports", looked |-> 0]
    ELSE IF nb[ImportsCell + 1].outputs # <<>> THEN
        [verdict |-> "failed", stage |-> "imports", looked |-> 0]
    ELSE CheckTexts(nb, 1, 0)

(***************************************************************************)
(* The notebook test.                                                      *)
(***************************************************************************)
\* what a cell that does not do the expected can be after execution
DeviantCells ==
    {Markdown,
     Code(<<>>),
     Code(<<Stream({"Traceback"})>>),
     Code(<<DisplayData>>),
     Code(<<Error("NameError")>>),
     Code(<<Error("ValueError"), Stream({"Run number: "}), Error("KeyError")>>)}

\* the cells that may deviate: a markdown cell, the imports cell, the first,
\* a middle and the last cell whose text is checked
DeviationCells == {0, ImportsCell, 4, 12, 34}

ExecutedNotebooks ==
    {[i \in 1..NumCells |-> IF (i - 1) \in DOMAIN d THEN d[i - 1] ELSE ExpectedCells[i]] :
        d \in UNION {[D -> DeviantCells] : D \in UpTo(DeviationCells, MaxDeviations)}}

NoJn ==
    [skipped |-> FALSE, raised |-> "no", cells |-> <<>>, ran |-> 0,
     errors |-> <<>>, verdict |-> "none", stage |-> "none", looked |-> 0]

InitNotebook ==
    /\ pc = "idle"
    /\ args = NoArgs
    /\ lattice = NoLattice
    /\ net = NoNet
    /\ stdout = <<>>
    /\ filt = NoFilt
    /\ loop = NoLoop
    /\ jn = NoJn

\* l.49-54: the test starts, unless SKIP_INT_TESTS is set, and runs the notebook
RunJn ==
    /\ pc = "idle"
    /\ \E skip \in BOOLEAN : \E executed \in ExecutedNotebooks :
       \E timed_out \in BOOLEAN :
         IF skip THEN
             /\ jn' = [NoJn EXCEPT !.skipped = TRUE, !.verdict = "skipped",
                                   !.stage = "skipIf"]
             /\ pc' = "test_done"
         ELSE
             LET r == run_jn(executed, timed_out)
             IN  IF r.raised # "no" THEN
                     /\ jn' = [NoJn EXCEPT !.raised = r.raised, !.ran = r.ran,
                                           !.verdict = "error", !.stage = "run_jn"]
                     /\ pc' = "test_done"
                 ELSE
                     /\ jn' = [NoJn EXCEPT !.cells = r.cells, !.ran = r.ran]
                     /\ pc' = "ran"
    /\ UNCHANGED <<args, lattice, net, stdout, filt, loop>>

\* l.55
CollectJnErrors ==
    /\ pc = "ran"
    /\ jn' = [jn EXCEPT !.errors = collect_jn_errors(jn.cells)]
    /\ pc' = "collected"
    /\ UNCHANGED <<args, lattice, net, stdout, filt, loop>>

\* l.60: self.assertEqual(errors, [])
Smoketest ==
    /\ pc = "collected"
    /\ IF jn.errors # <<>> THEN
           /\ jn' = [jn EXCEPT !.verdict = "failed", !.stage = "smoketest"]
           /\ pc' = "test_done"
       ELSE
           /\ jn' = [jn EXCEPT !.stage = "smoketest"]
           /\ pc' = "smoke_passed"
    /\ UNCHANGED <<args, lattice, net, stdout, filt, loop>>

\* l.65-121
TestCellOutputs ==
    /\ pc = "smoke_passed"
    /\ LET r == CheckCellOutputs(jn.cells)
       IN  jn' = [jn EXCEPT !.verdict = r.verdict, !.stage = r.stage,
                            !.looked = r.looked]
    /\ pc' = "test_done"
    /\ UNCHANGED <<args, lattice, net, stdout, filt, loop>>

NextNotebook == RunJn \/ CollectJnErrors \/ Smoketest \/ TestCellOutputs

SpecNotebook == InitNotebook /\ [][NextNotebook]_vars

(***************************************************************************)
(* Properties of the notebook test                                         *)
(***************************************************************************)
\* the places <<cell, output>> of the error outputs of the cells with outputs
ErrorPlaces(cells) ==
    {p \in (1..Len(cells)) \X (1..3) :
        /\ cells[p[1]].has_outputs
        /\ p[2] <= Len(cells[p[1]].outputs)
        /\ cells[p[1]].outputs[p[2]].output_type = "error"}

\* errors lists the outputs at the error places, each once, in cell order
ListsEveryError(errors, cells) ==
    LET P == ErrorPlaces(cells)
    IN  /\ Len(errors) = Cardinality(P)
        /\ \A p \in P :
             errors[Cardinality({q \in P : LexLess(q, p) \/ q = p})]
                = cells[p[1]].outputs[p[2]]

\* C3: the test passes only if no cell of the executed notebook produced an
\* error: execution goes on past a failing cell to the last cell,
\* collect_jn_errors returns every output of type 'error' of every cell with
\* outputs, in cell order, and the test asserts the list is empty before it
\* looks at any cell text.
C3_PassOnlyWithoutErrors ==
    /\ (pc \in {"ran", "collected", "smoke_passed"} \/ jn.verdict \in {"passed", "failed"}
           => jn.ran = NumCells /\ Len(jn.cells) = NumCells)
    /\ (pc \in {"collected", "smoke_passed"} \/ jn.verdict \in {"passed", "failed"}
           => ListsEveryError(jn.errors, jn.cells))
    /\ (jn.verdict = "passed" => ErrorPlaces(jn.cells) = {})
    /\ (pc = "test_done" /\ jn.raised = "no" /\ ~jn.skipped
                         /\ ErrorPlaces(jn.cells) # {}
           => jn.verdict = "failed" /\ jn.stage = "smoketest" /\ jn.looked = 0)

\* C3 witness: two cells failed, the later one twice, execution reached the
\* last cell, all three errors were collected and the test failed at the
\* smoke test.
C3_Witness ==
    /\ pc = "test_done"
    /\ jn.verdict = "failed"
    /\ jn.stage = "smoketest"
    /\ Len(jn.errors) = 3
    /\ jn.errors[1].ename = "NameError"
    /\ jn.errors[3].ename = "KeyError"
    /\ jn.ran = NumCells

(***************************************************************************)
(* Direct calls of _node_to_chain: lattice.L.emb keeps the chain returned  *)
(* for each position asked so far, as _create_lattice keeps them.          *)
(***************************************************************************)
InitChains ==
    /\ pc = "idle"
    /\ args = NoArgs
    /\ lattice = NoLattice
    /\ net = NoNet
    /\ stdout = <<>>
    /\ filt = NoFilt
    /\ loop = NoLoop
    /\ jn = NoJn

\* edge = _node_to_chain(row, col); emb[v] = edge
NodeToChain ==
    /\ pc \in {"idle", "chains"}
    /\ Cardinality(DOMAIN lattice.L.emb) < MaxChains
    /\ \E row \in 0..MaxCoord : \E col \in 0..MaxCoord :
         /\ <<row, col>> \notin DOMAIN lattice.L.emb
         /\ lattice' = [lattice EXCEPT !.L.emb =
                           [v \in (DOMAIN lattice.L.emb) \cup {<<row, col>>} |->
                               IF v = <<row, col>> THEN _node_to_chain(row, col)
                               ELSE lattice.L.emb[v]]]
    /\ pc' = "chains"
    /\ UNCHANGED <<args, net, stdout, filt, loop, jn>>

NextChains == NodeToChain

SpecChains == InitChains /\ [][NextChains]_vars

(***************************************************************************)
(* Properties of _node_to_chain                                            *)
(***************************************************************************)
\* q is a Pegasus coordinate (u, w, k, z) with the given orientation u
IsQubit(q, u) ==
    /\ Len(q) = 4
    /\ q[1] = u
    /\ q[2] \in Nat
    /\ q[3] \in 0..11
    /\ q[4] \in Nat

\* C11: _node_to_chain is total and injective on chains: for every row >= 0
\* and col >= 0 it returns a pair (q0, q1), q0 of the form (0, w, k, z) and
\* q1 of the form (1, w, k, z), and the chains of two different positions
\* share no qubit.
C11_ChainsTotalAndDisjoint ==
    LET emb == lattice.L.emb
    IN  /\ \A v \in DOMAIN emb :
             /\ emb[v] # None
             /\ Len(emb[v]) = 2
             /\ IsQubit(emb[v][1], 0)
             /\ IsQubit(emb[v][2], 1)
        /\ \A v \in DOMAIN emb : \A w \in DOMAIN emb :
             v # w => {emb[v][1], emb[v][2]} \cap {emb[w][1], emb[w][2]} = {}

\* C11 witness: two chains were returned for positions of different 3x3
\* cells whose vertical qubits lie in the same column w and row z of the
\* Pegasus graph.
C11_Witness ==
    LET emb == lattice.L.emb
    IN  \E v \in DOMAIN emb : \E w \in DOMAIN emb :
          /\ v[2] \div 3 # w[2] \div 3
          /\ emb[v][1][2] = emb[w][1][2]
          /\ emb[v][1][4] = emb[w][1][4]
          /\ emb[v][1] # emb[w][1]

====
